---- MODULE Spec2Model ----
(***************************************************************************)
(* CATS trip cleaning, resampling, summary and featurisation               *)
(* (cats_analysis/io.py, summary.py, feature_extraction.py).               *)
(*                                                                         *)
(* Numbers are exact: [n, d, root] with d > 0 is the rational n/d when     *)
(* root = 1 and the square root of n/d when root = 2 (a standard           *)
(* deviation that is not rational); the missing-value marker (NaN / None)  *)
(* is the record with d = 0.  A raw trip file is a sequence of raw rows; a *)
(* waveform cell is the sequence of its whitespace separated tokens.       *)
(* Timestamps are seconds after 2019-01-01 10:00:00.                       *)
(***************************************************************************)
EXTENDS Integers, Sequences, FiniteSets, TLC

VARIABLES
    pandas,         \* API of the installed pandas: "0.x" (before 1.0) or "1.x" (1.4, 1.5)
    file,           \* rows of the raw csv at CleanTrip._filepath
    file_format,    \* what is at CleanTrip._filepath: a well-formed csv or a defect
    wave_features,  \* CleanTrip._wave_features
    _data,          \* CleanTrip._data
    clean_exc,      \* outcome of the last clean() call: "", "ok" or the exception
    df_wave,        \* the table left by the last _format_wave_form_data(df) call
    resampled,      \* what the last CleanTrip.resample(rule, interp_missing) call returned
    summary_module, \* module of the TripSummaryStatistics class in use: "io" or "summary"
    _summary,       \* TripSummaryStatistics._summary
    _duration,      \* TripSummaryStatistics._duration
    duration,       \* TripSummaryStatistics.duration, the attribute calculate() assigns
    ret,            \* what the last property read or calculate() call gave its caller
    summary_frames, \* the caller's list of summary tables
    df_trips        \* what the last featurize_trips(summary_frames) call returned

envVars == <<pandas, file, file_format, wave_features, summary_module>>

summaryVars == <<_summary, _duration, duration>>

callerVars == <<summary_frames, df_trips>>

vars == <<pandas, file, file_format, wave_features, _data, clean_exc, df_wave, resampled,
          summary_module, _summary, _duration, duration, ret, summary_frames, df_trips>>

----------------------------------------------------------------------------
(* Bounds *)
MaxRows == 2

MaxWaveRows == 1

MaxTokens == 2

MaxSeriesRows == 3

MaxFrames == 2

MaxRewriteRows == 1

----------------------------------------------------------------------------
(* Values *)
None == [kind |-> "None", rows |-> <<>>]

DataFrame(rows) == [kind |-> "DataFrame", rows |-> rows]

NaN == [n |-> 0, d |-> 0, root |-> 1]

Abs(i) == IF i < 0 THEN 0 - i ELSE i

RECURSIVE GCD(_, _)
GCD(a, b) == IF b = 0 THEN a ELSE GCD(b, a % b)

Rat(num, den) ==
    LET g == GCD(Abs(num), den)
    IN  [n |-> (IF num < 0 THEN 0 - (Abs(num) \div g) ELSE num \div g), d |-> den \div g,
         root |-> 1]

Num(i) == Rat(i, 1)

isnan(v) == v.d = 0

IsZero(v) == v.n = 0 /\ v.d # 0

\* the square of a number
Sq(v) == IF v.root = 1 THEN Rat(v.n * v.n, v.d * v.d) ELSE Rat(v.n, v.d)

ISqrt(i) == CHOOSE r \in 0..i : (r + 1) * (r + 1) > i

\* the square root of a rational q >= 0: rational when numerator and
\* denominator are squares
Root(q) ==
    LET rn == ISqrt(q.n)
        rd == ISqrt(q.d)
    IN  IF rn * rn = q.n /\ rd * rd = q.d THEN Rat(rn, rd)
        ELSE [n |-> q.n, d |-> q.d, root |-> 2]

\* Sums and differences are taken of rationals; of a square root only where
\* the result is again one of the numbers above.
RatAdd(a, b) ==
    CASE a.root = 1 /\ b.root = 1 -> Rat(a.n * b.d + b.n * a.d, a.d * b.d)
      [] a.root = 2 /\ IsZero(b) -> a
      [] IsZero(a) /\ b.root = 2 -> b

RatLE(a, b) ==
    IF a.root = 1 /\ b.root = 1 THEN a.n * b.d <= b.n * a.d
    ELSE IF a.n < 0 THEN TRUE
    ELSE IF b.n < 0 THEN FALSE
    ELSE Sq(a).n * Sq(b).d <= Sq(b).n * Sq(a).d

RatDivInt(a, k) ==
    IF a.root = 1 THEN Rat(a.n, a.d * k) ELSE Root(Rat(a.n, a.d * k * k))

RatMulInt(a, k) ==
    IF a.root = 1 THEN Rat(a.n * k, a.d) ELSE Root(Rat(a.n * k * k, a.d))

RatSub(a, b) ==
    CASE a.root = 1 /\ b.root = 1 -> Rat(a.n * b.d - b.n * a.d, a.d * b.d)
      [] a.root = 2 /\ IsZero(b) -> a
      [] a.root = 2 /\ a = b -> Num(0)

missing_value == 8388607

Sentinel == Num(missing_value)

----------------------------------------------------------------------------
(* Raw table columns: timestamp, catsid, type, the scalar fields (raw      *)
(* columns 3..23) and the waveform fields (raw columns 24..32).            *)
ScalarCols == {"x"}

WaveCols == {"w"}

----------------------------------------------------------------------------
(* CleanTrip._drop_invalid_dates *)
ContainsInvalidDate(text) == text \in {"Invalid Date", "Mon Invalid Date"}

_drop_invalid_dates(df) ==
    SelectSeq(df, LAMBDA r : ~ContainsInvalidDate(r.timestamp))

(* CleanTrip._format_as_timeseries: pd.to_datetime of the timestamp text *)
Parseable(text) ==
    text \in {"2019-01-01 10:00:00", "2019/01/01 10:00:00", "2019-01-01 10:00:01",
              "2019-01-01 10:00:02", "2019-01-01 10:00:03", "2019-01-01 10:00:04",
              "2019-01-01 10:00:05"}

to_datetime(text) ==
    CASE text = "2019-01-01 10:00:00" -> 0
      [] text = "2019/01/01 10:00:00" -> 0
      [] text = "2019-01-01 10:00:01" -> 1
      [] text = "2019-01-01 10:00:02" -> 2
      [] text = "2019-01-01 10:00:03" -> 3
      [] text = "2019-01-01 10:00:04" -> 4
      [] text = "2019-01-01 10:00:05" -> 5

_format_as_timeseries(df) ==
    [i \in 1..Len(df) |-> [df[i] EXCEPT !.timestamp = to_datetime(df[i].timestamp)]]

----------------------------------------------------------------------------
(* CleanTrip._format_wave_form_data *)
IsNanToken(tok) == tok = "nan"

Unquote(tok) ==
    CASE tok = "\"1" -> "1"
      [] tok = "\"3" -> "3"
      [] OTHER -> tok

ParseFloat(tok) ==
    CASE tok = "1" -> Num(1)
      [] tok = "3" -> Num(3)
      [] tok = "4" -> Num(4)
      [] tok = "8388607" -> Num(8388607)

\* x.replace(' "', ' ').replace('nan', '') then np.fromstring(..., sep=' '):
\* a quote that follows a separator is removed, "nan" tokens vanish, the
\* remaining tokens are parsed in order.
fromstring(cell) ==
    LET unq == [i \in 1..Len(cell) |-> IF i > 1 THEN Unquote(cell[i]) ELSE cell[i]]
        kept == SelectSeq(unq, LAMBDA tok : ~IsNanToken(tok))
    IN  [i \in 1..Len(kept) |-> ParseFloat(kept[i])]

RECURSIVE SeqSum(_, _)
SeqSum(a, k) == IF k = 0 THEN Num(0) ELSE RatAdd(SeqSum(a, k - 1), a[k])

RECURSIVE SeqMax(_, _)
SeqMax(a, k) ==
    IF k = 1 THEN a[1]
    ELSE LET m == SeqMax(a, k - 1) IN IF RatLE(m, a[k]) THEN a[k] ELSE m

RECURSIVE SeqMin(_, _)
SeqMin(a, k) ==
    IF k = 1 THEN a[1]
    ELSE LET m == SeqMin(a, k - 1) IN IF RatLE(a[k], m) THEN a[k] ELSE m

RECURSIVE Sorted(_)
Sorted(a) ==
    IF Len(a) = 0 THEN <<>>
    ELSE LET k == CHOOSE i \in 1..Len(a) : \A j \in 1..Len(a) : RatLE(a[i], a[j])
         IN  <<a[k]>> \o Sorted([j \in 1..(Len(a) - 1) |-> IF j < k THEN a[j] ELSE a[j + 1]])

\* Series.quantile(q = num/4) and, for num = 2, np.median: linear
\* interpolation between order statistics
quantile(a, num) ==
    IF Len(a) = 0 THEN NaN
    ELSE LET srt == Sorted(a)
             lo == ((Len(a) - 1) * num) \div 4
             fr == ((Len(a) - 1) * num) % 4
         IN  IF fr = 0 THEN srt[lo + 1]
             ELSE RatAdd(srt[lo + 1],
                         RatDivInt(RatMulInt(RatSub(srt[lo + 2], srt[lo + 1]), fr), 4))

\* the mean of the squared deviations from the mean, over Len(a) - ddof
variance(a, ddof) ==
    LET m == RatDivInt(SeqSum(a, Len(a)), Len(a))
        devsq == [k \in 1..Len(a) |-> Sq(RatSub(a[k], m))]
    IN  RatDivInt(SeqSum(devsq, Len(a)), Len(a) - ddof)

\* the reductions of the numpy namespace the model computes; of the names
\* used as wave features, "avg" is one numpy does not have
NumpyFuncs == {"mean", "std", "var", "min", "max", "median", "sum"}

\* getattr(np, func)(x, axis=0) for a non-empty array x
np_apply(func, a) ==
    CASE func = "mean" -> RatDivInt(SeqSum(a, Len(a)), Len(a))
      [] func = "std" -> Root(variance(a, 0))
      [] func = "var" -> variance(a, 0)
      [] func = "max" -> SeqMax(a, Len(a))
      [] func = "min" -> SeqMin(a, Len(a))
      [] func = "median" -> quantile(a, 2)
      [] func = "sum" -> SeqSum(a, Len(a))

wave_statistic_zero(func, a) == IF Len(a) > 0 THEN np_apply(func, a) ELSE Num(0)

wave_statistic(func, a) == IF Len(a) > 0 THEN np_apply(func, a) ELSE NaN

feature_name(col, func) == col \o "_" \o func

FeatureCols(features) ==
    {feature_name(col, features[k]) : col \in WaveCols, k \in 1..Len(features)}

ValueCols(features) == ScalarCols \cup FeatureCols(features)

\* the value of derived column c for one raw row: the last assignment to
\* df[feature_name] wins when a name is produced twice
FeatureValue(r, features, c) ==
    LET col == CHOOSE wc \in WaveCols : \E k \in 1..Len(features) : feature_name(wc, features[k]) = c
        k == CHOOSE j \in 1..Len(features) : feature_name(col, features[j]) = c
    IN  wave_statistic(features[k], fromstring(r.waves[col]))

\* getattr raises AttributeError for an unknown name, but only when the
\* lambda reaches it, i.e. for a row whose decoded array is not empty
WaveFormError(df, features) ==
    \E i \in 1..Len(df), col \in WaveCols, k \in 1..Len(features) :
        /\ features[k] \notin NumpyFuncs
        /\ Len(fromstring(df[i].waves[col])) > 0

_format_wave_form_data(df, features) ==
    [i \in 1..Len(df) |->
        [timestamp |-> df[i].timestamp,
         catsid |-> df[i].catsid,
         type |-> df[i].type,
         vals |-> [c \in ValueCols(features) |->
                     IF c \in ScalarCols THEN df[i].scalars[c]
                     ELSE FeatureValue(df[i], features, c)]]]

----------------------------------------------------------------------------
(* CleanTrip._replace_missing_values_with_nan: df.replace(8388607.0, None). *)
(* pandas 0.x reads value=None as "no value given" and pads: a matching    *)
(* cell takes the value of the row above it, in every column, and a        *)
(* matching cell with no row above keeps its value.  pandas 1.x stores     *)
(* None.                                                                   *)
Column(df, c) == [i \in 1..Len(df) |-> IF c = "catsid" THEN df[i].catsid ELSE df[i].vals[c]]

pad(col) ==
    LET filled[i \in 1..Len(col)] ==
            IF col[i] # Sentinel THEN col[i]
            ELSE IF i = 1 THEN col[i] ELSE filled[i - 1]
    IN  filled

replace_with_value(col) == [i \in 1..Len(col) |-> IF col[i] = Sentinel THEN NaN ELSE col[i]]

replace_column(api, col) == IF api = "0.x" THEN pad(col) ELSE replace_with_value(col)

_replace_missing_values_with_nan(api, df) ==
    [i \in 1..Len(df) |->
        [timestamp |-> df[i].timestamp,
         catsid |-> replace_column(api, Column(df, "catsid"))[i],
         type |-> df[i].type,
         vals |-> [c \in DOMAIN df[i].vals |-> replace_column(api, Column(df, c))[i]]]]

----------------------------------------------------------------------------
(* CleanTrip._aggregate_rows *)
RECURSIVE SortedSeq(_)
SortedSeq(S) ==
    IF S = {} THEN <<>>
    ELSE LET m == CHOOSE a \in S : \A b \in S : a <= b
         IN  <<m>> \o SortedSeq(S \ {m})

Group(df, ts) == SelectSeq(df, LAMBDA r : r.timestamp = ts)

\* groupby(...)['catsid'].count(): the non-missing catsid cells of the group
count(g) == Cardinality({i \in 1..Len(g) : ~isnan(g[i].catsid)})

\* the 'scalar' aggregate: a.values[len(a)-1] of the group's column
revert_to_scalar(g, c) == IF Len(g) > 0 THEN g[Len(g)].vals[c] ELSE NaN

\* groupby(by='timestamp'): one group per distinct key, keys ascending
ungrouped_keys(df) == [i \in 1..Len(df) |-> df[i].timestamp]

group_keys(df) == SortedSeq({df[i].timestamp : i \in 1..Len(df)})

_aggregate_rows(df) ==
    LET keys == group_keys(df)
    IN  [k \in 1..Len(keys) |->
            LET g == Group(df, keys[k])
            IN  [timestamp |-> keys[k],
                 merged_n |-> count(g),
                 type |-> {g[i].type : i \in 1..Len(g)},
                 vals |-> [c \in DOMAIN g[1].vals |-> revert_to_scalar(g, c)]]]

----------------------------------------------------------------------------
(* CleanTrip.clean *)
ValidRows(f) == _drop_invalid_dates(f)

clean_error(f, features) ==
    LET df == ValidRows(f)
    IN  IF \E i \in 1..Len(df) : ~Parseable(df[i].timestamp) THEN "ValueError"
        ELSE IF WaveFormError(df, features) THEN "AttributeError"
        ELSE "ok"

clean_replace_before_drop(api, f, features) ==
    _aggregate_rows(
        _format_as_timeseries(
            _drop_invalid_dates(
                _replace_missing_values_with_nan(api, _format_wave_form_data(f, features)))))

clean(api, f, features) ==
    _aggregate_rows(
        _replace_missing_values_with_nan(api,
            _format_wave_form_data(_format_as_timeseries(ValidRows(f)), features)))

\* What can be at the path: a csv with the expected header, no file, a csv
\* of fewer than 33 columns, a csv without a 'timestamp' header, a csv
\* without a 'catsid' header.
FileFormats == {"ok", "missing", "short", "no_timestamp", "no_catsid"}

\* the first statement of clean() that raises, in pipeline order:
\* pd.read_csv(usecols=range(33)); df['timestamp'].str.contains, whose
\* result cannot be inverted when a timestamp cell is empty and which does
\* not exist when every cell is empty; pd.to_datetime; getattr(np, func);
\* groupby(...)['catsid']
clean_raises(format, f, features) ==
    IF format = "missing" THEN "FileNotFoundError"
    ELSE IF format = "short" THEN "ValueError"
    ELSE IF format = "no_timestamp" THEN "KeyError"
    ELSE IF Len(f) > 0 /\ \A i \in 1..Len(f) : f[i].timestamp = "" THEN "AttributeError"
    ELSE IF \E i \in 1..Len(f) : f[i].timestamp = "" THEN "TypeError"
    ELSE IF clean_error(f, features) # "ok" THEN clean_error(f, features)
    ELSE IF format = "no_catsid" THEN "KeyError"
    ELSE "ok"

\* self._data = self._aggregate_rows(df) is the last statement of clean()
CleanResetsFirst ==
    /\ clean_exc' = clean_raises(file_format, file, wave_features)
    /\ _data' = IF clean_raises(file_format, file, wave_features) = "ok"
                THEN DataFrame(clean(pandas, file, wave_features))
                ELSE None
    /\ UNCHANGED <<envVars, df_wave, resampled, summaryVars, ret, callerVars>>

Clean ==
    /\ clean_exc' = clean_raises(file_format, file, wave_features)
    /\ _data' = IF clean_raises(file_format, file, wave_features) = "ok"
                THEN DataFrame(clean(pandas, file, wave_features))
                ELSE _data
    /\ UNCHANGED <<envVars, df_wave, resampled, summaryVars, ret, callerVars>>

\* _format_wave_form_data(df) on the table clean() hands it: the valid rows
\* with parsed timestamps (clean() gets this far only when pd.to_datetime
\* has accepted every remaining timestamp)
Raised(exc) == [kind |-> exc, rows |-> <<>>]

FormatWaveFormData ==
    /\ \A i \in 1..Len(ValidRows(file)) : Parseable(ValidRows(file)[i].timestamp)
    /\ df_wave' = IF WaveFormError(ValidRows(file), wave_features)
                  THEN Raised("AttributeError")
                  ELSE DataFrame(_format_wave_form_data(
                                    _format_as_timeseries(ValidRows(file)), wave_features))
    /\ UNCHANGED <<envVars, _data, clean_exc, resampled, summaryVars, ret, callerVars>>

----------------------------------------------------------------------------
(* CleanTrip.resample: self._data.resample(rule=rule).mean(), then         *)
(* data.interpolate(method='linear') when interp_missing is set.  The      *)
(* numeric columns are merged_n and the value columns; the type column     *)
(* (sets) has no mean and is left out by pandas.                           *)
Rules == {"1s", "2s"}

rule_seconds(rule) ==
    CASE rule = "1s" -> 1
      [] rule = "2s" -> 2
      [] rule = "30s" -> 30

NumericCols(rows) == IF Len(rows) = 0 THEN {} ELSE {"merged_n"} \cup DOMAIN rows[1].vals

Cell(row, c) == IF c = "merged_n" THEN Num(row.merged_n) ELSE row.vals[c]

\* mean() of one column over the rows of one bin: missing cells are skipped,
\* a bin with no value is missing
bin_mean(rows, c, w, b) ==
    LET inbin == SelectSeq(rows, LAMBDA r : r.timestamp \div w = b /\ ~isnan(Cell(r, c)))
        cells == [i \in 1..Len(inbin) |-> Cell(inbin[i], c)]
    IN  IF Len(cells) = 0 THEN NaN ELSE RatDivInt(SeqSum(cells, Len(cells)), Len(cells))

\* one bin of width w per step from the bin of the first row to the bin of
\* the last row
resample_mean(rows, w) ==
    IF Len(rows) = 0 THEN <<>>
    ELSE LET first == rows[1].timestamp \div w
             last == rows[Len(rows)].timestamp \div w
         IN  [k \in 1..(last - first + 1) |->
                [timestamp |-> (first + k - 1) * w,
                 vals |-> [c \in NumericCols(rows) |-> bin_mean(rows, c, w, first + k - 1)]]]

SetMax(S) == CHOOSE a \in S : \A b \in S : b <= a

SetMin(S) == CHOOSE a \in S : \A b \in S : a <= b

\* Series.interpolate(method='linear') with pandas' defaults
\* (limit_direction='forward', limit_area=None): a gap between two values
\* is filled on the straight line between them, a gap after the last value
\* repeats the last value, a gap before the first value stays missing
interpolate(col) ==
    [i \in 1..Len(col) |->
        IF ~isnan(col[i]) THEN col[i]
        ELSE LET before == {j \in 1..(i - 1) : ~isnan(col[j])}
                 after == {j \in (i + 1)..Len(col) : ~isnan(col[j])}
             IN  IF before = {} THEN NaN
                 ELSE IF after = {} THEN col[SetMax(before)]
                 ELSE LET p == SetMax(before)
                          q == SetMin(after)
                      IN  RatAdd(col[p], RatDivInt(RatMulInt(RatSub(col[q], col[p]), i - p), q - p))]

resample(rows, rule, interp_missing) ==
    LET data == resample_mean(rows, rule_seconds(rule))
    IN  IF ~interp_missing THEN data
        ELSE [k \in 1..Len(data) |->
                [timestamp |-> data[k].timestamp,
                 vals |-> [c \in DOMAIN data[k].vals |->
                             interpolate([j \in 1..Len(data) |-> data[j].vals[c]])[k]]]]

Resample(rule, interp_missing) ==
    /\ resampled' = IF _data.kind = "None"
                    THEN [kind |-> "AttributeError", rule |-> rule,
                          interp_missing |-> interp_missing, rows |-> <<>>]
                    ELSE [kind |-> "DataFrame", rule |-> rule,
                          interp_missing |-> interp_missing,
                          rows |-> resample(_data.rows, rule, interp_missing)]
    /\ UNCHANGED <<envVars, _data, clean_exc, df_wave, summaryVars, ret, callerVars>>

----------------------------------------------------------------------------
(* CleanTrip.time_series *)
Returned(op, kind, value) == [op |-> op, kind |-> kind, value |-> value]

ReadTimeSeries ==
    /\ ret' = Returned("time_series", _data.kind, 0)
    /\ UNCHANGED <<envVars, _data, clean_exc, df_wave, resampled, summaryVars, callerVars>>

----------------------------------------------------------------------------
(* TripSummaryStatistics (io.py and summary.py) *)
SummaryModules == {"io", "summary"}

Statistics == {"per_missing", "mean", "std", "min", "max", "median", "iqr"}

NonMissing(df, c) ==
    SelectSeq([k \in 1..Len(df) |-> df[k].vals[c]], LAMBDA v : ~isnan(v))

statistic(df, c, stat) ==
    LET a == NonMissing(df, c)
    IN  CASE stat = "per_missing" -> Rat((Len(df) - Len(a)) * 100, Len(df))
          [] Len(a) = 0 /\ stat # "per_missing" -> NaN
          [] Len(a) > 0 /\ stat = "mean" -> RatDivInt(SeqSum(a, Len(a)), Len(a))
          [] Len(a) = 1 /\ stat = "std" -> NaN
          [] Len(a) > 1 /\ stat = "std" -> Root(variance(a, 1))
          [] Len(a) > 0 /\ stat = "min" -> SeqMin(a, Len(a))
          [] Len(a) > 0 /\ stat = "max" -> SeqMax(a, Len(a))
          [] Len(a) > 0 /\ stat = "median" -> quantile(a, 2)
          [] Len(a) > 0 /\ stat = "iqr" -> RatSub(quantile(a, 3), quantile(a, 1))

\* pd.DataFrame(results): one row per column of df, one column per statistic
summary_table(df) ==
    [c \in (IF Len(df) = 0 THEN {} ELSE DOMAIN df[1].vals) |->
        [stat \in Statistics |-> statistic(df, c, stat)]]

\* df.index.max() - df.index.min()
index_span(df) ==
    IF Len(df) = 0 THEN [kind |-> "NaT", value |-> 0]
    ELSE [kind |-> "Timedelta", value |-> df[Len(df)].timestamp - df[1].timestamp]

\* summary.py passes (resample, smooth, interp_missing) to
\* CleanTrip.resample(rule, interp_missing): one positional argument too many
Calculate(rule, interp_missing) ==
    /\ IF summary_module = "summary"
       THEN /\ ret' = Returned("calculate", "TypeError", 0)
            /\ UNCHANGED summaryVars
       ELSE IF _data.kind = "None"
       THEN /\ ret' = Returned("calculate", "AttributeError", 0)
            /\ UNCHANGED summaryVars
       ELSE LET df == resample(_data.rows, rule, interp_missing)
            IN  /\ duration' = index_span(df)
                /\ _summary' = DataFrame(summary_table(df))
                /\ ret' = Returned("calculate", "None", 0)
                /\ UNCHANGED _duration
    /\ UNCHANGED <<envVars, _data, clean_exc, df_wave, resampled, callerVars>>

\* summary_table = property(_get_summary_table)
ReadSummaryTable ==
    /\ ret' = Returned("summary_table", _summary.kind, 0)
    /\ UNCHANGED <<envVars, _data, clean_exc, df_wave, resampled, summaryVars, callerVars>>

\* trip_duration = property(_get_duration): return self._get_duration
_get_duration == Returned("trip_duration", "method", 0)

ReadTripDuration ==
    /\ ret' = _get_duration
    /\ UNCHANGED <<envVars, _data, clean_exc, df_wave, resampled, summaryVars, callerVars>>

----------------------------------------------------------------------------
(* feature_extraction.py *)

\* summary_frame.unstack() transposed: one column per (statistic, field)
featurize_trip(summary_frame) ==
    [p \in {<<stat, field>> : stat \in Statistics, field \in DOMAIN summary_frame} |->
        summary_frame[p[2]][p[1]]]

\* pd.concat([df_trips, row]): the union of the columns, missing where a
\* row has no such column
concat(rows, row) ==
    LET cols == UNION {DOMAIN rows[i] : i \in 1..Len(rows)} \cup DOMAIN row
        reindex(r) == [c \in cols |-> IF c \in DOMAIN r THEN r[c] ELSE NaN]
    IN  Append([i \in 1..Len(rows) |-> reindex(rows[i])], reindex(row))

\* df_trips after the first k passes of the loop
RECURSIVE stacked(_, _)
stacked(frames, k) ==
    IF k = 0 THEN None
    ELSE LET before == stacked(frames, k - 1)
             row == featurize_trip(frames[k].rows)
         IN  IF before.kind = "DataFrame" THEN DataFrame(concat(before.rows, row))
             ELSE DataFrame(<<row>>)

\* df.copy on None, del df.index.name where Index.name is a property without
\* deleter (pandas 1.x), df_trips.index on the None of an empty list
featurize_raises(api, frames) ==
    \/ \E k \in 1..Len(frames) : frames[k].kind = "None"
    \/ Len(frames) > 0 /\ api = "1.x"
    \/ Len(frames) = 0

featurize_trips(api, frames) ==
    IF featurize_raises(api, frames) THEN Raised("AttributeError")
    ELSE [kind |-> "DataFrame",
          index |-> [i \in 1..Len(frames) |-> i - 1],
          rows |-> stacked(frames, Len(frames)).rows]

FeaturizeTrips ==
    /\ df_trips' = featurize_trips(pandas, summary_frames)
    /\ UNCHANGED <<envVars, _data, clean_exc, df_wave, resampled, summaryVars, ret, summary_frames>>

\* the caller puts the summary_table of the trip on its list
Collect ==
    /\ Len(summary_frames) < MaxFrames
    /\ summary_frames' = Append(summary_frames, _summary)
    /\ UNCHANGED <<envVars, _data, clean_exc, df_wave, resampled, summaryVars, ret, df_trips>>

----------------------------------------------------------------------------
(* Raw inputs *)
PandasApis == {"0.x", "1.x"}

RECURSIVE SeqsUpTo(_, _)
SeqsUpTo(S, k) ==
    IF k = 0 THEN {<<>>}
    ELSE LET shorter == SeqsUpTo(S, k - 1)
         IN  shorter \cup {Append(s, e) : s \in {t \in shorter : Len(t) = k - 1}, e \in S}

RawRow(ts, id, ty, x, w) ==
    [timestamp |-> ts, catsid |-> id, type |-> ty,
     scalars |-> [c \in ScalarCols |-> x], waves |-> [c \in WaveCols |-> w]]

CleanTimestamps ==
    {"2019-01-01 10:00:00", "2019/01/01 10:00:00", "2019-01-01 10:00:01", "Invalid Date"}

CleanRows ==
    {RawRow(ts, id, "A", x, w) :
        ts \in CleanTimestamps,
        id \in {NaN, Num(7)},
        x \in {NaN, Num(1), Sentinel},
        w \in {<<"nan">>, <<"8388607">>}}
    \cup {RawRow(ts, Num(7), "B", Num(1), <<"nan">>) : ts \in CleanTimestamps}

\* CleanTrip.__init__, TripSummaryStatistics.__init__ and a caller that has
\* called nothing yet
InitObjects ==
    /\ _data = None
    /\ clean_exc = ""
    /\ df_wave = None
    /\ resampled = None
    /\ _summary = None
    /\ _duration = [kind |-> "float", value |-> -1]
    /\ duration = [kind |-> "unset", value |-> 0]
    /\ ret = [op |-> "", kind |-> "None", value |-> 0]
    /\ summary_frames = <<>>
    /\ df_trips = None

InitClean ==
    /\ pandas \in PandasApis
    /\ file_format = "ok"
    /\ summary_module = "io"
    /\ file \in SeqsUpTo(CleanRows, MaxRows)
    /\ wave_features \in {<<>>, <<"max">>}
    /\ InitObjects

NextClean == Clean

SpecClean == InitClean /\ [][NextClean]_vars

SeriesTimestamps ==
    {"2019-01-01 10:00:00", "2019-01-01 10:00:01", "2019-01-01 10:00:02",
     "2019-01-01 10:00:04", "2019-01-01 10:00:05"}

SeriesRows ==
    {RawRow(ts, Num(7), "A", x, <<"nan">>) : ts \in SeriesTimestamps, x \in {NaN, Num(1), Num(4)}}

InitResample ==
    /\ pandas \in PandasApis
    /\ file_format = "ok"
    /\ summary_module = "io"
    /\ file \in SeqsUpTo(SeriesRows, MaxSeriesRows)
    /\ wave_features = <<>>
    /\ InitObjects

NextResample ==
    \/ Clean
    \/ \E rule \in Rules, interp_missing \in BOOLEAN : Resample(rule, interp_missing)

SpecResample == InitResample /\ [][NextResample]_vars

SummaryRows ==
    {RawRow(ts, Num(7), "A", x, <<"nan">>) :
        ts \in {"2019-01-01 10:00:00", "2019-01-01 10:00:02", "2019-01-01 10:00:05"},
        x \in {NaN, Num(1), Num(4)}}

InitSummary ==
    /\ pandas \in PandasApis
    /\ file_format = "ok"
    /\ summary_module \in SummaryModules
    /\ file \in SeqsUpTo(SummaryRows, MaxRows) \ {<<>>}
    /\ wave_features = <<>>
    /\ InitObjects

NextSummary ==
    \/ Clean
    \/ ReadTimeSeries
    \/ \E rule \in Rules, interp_missing \in BOOLEAN : Calculate(rule, interp_missing)
    \/ ReadSummaryTable
    \/ ReadTripDuration

SpecSummary == InitSummary /\ [][NextSummary]_vars

FeaturizeRows ==
    {RawRow(ts, Num(7), "A", x, <<"nan">>) :
        ts \in {"2019-01-01 10:00:00", "2019-01-01 10:00:02"}, x \in {Num(1), Num(4)}}

InitFeaturize ==
    /\ pandas \in PandasApis
    /\ file_format = "ok"
    /\ summary_module \in SummaryModules
    /\ file \in SeqsUpTo(FeaturizeRows, MaxRows) \ {<<>>}
    /\ wave_features = <<>>
    /\ InitObjects

NextFeaturize ==
    \/ Clean
    \/ \E rule \in Rules : Calculate(rule, FALSE)
    \/ Collect
    \/ FeaturizeTrips

SpecFeaturize == InitFeaturize /\ [][NextFeaturize]_vars

RewriteRows ==
    {RawRow(ts, Num(7), "A", Num(1), w) :
        ts \in {"2019-01-01 10:00:00", "Invalid Date", "not a date", ""},
        w \in {<<"nan">>, <<"1">>}}

RewriteFiles == SeqsUpTo(RewriteRows, MaxRewriteRows)

\* the file at the path is replaced between two clean() calls
Rewrite ==
    /\ file' \in RewriteFiles
    /\ file_format' \in FileFormats
    /\ UNCHANGED <<pandas, wave_features, summary_module, _data, clean_exc, df_wave,
                   resampled, summaryVars, ret, callerVars>>

InitRewrite ==
    /\ pandas \in PandasApis
    /\ file \in RewriteFiles
    /\ file_format \in FileFormats
    /\ summary_module = "io"
    /\ wave_features \in {<<"max">>, <<"avg">>}
    /\ InitObjects

NextRewrite == Clean \/ Rewrite

SpecRewrite == InitRewrite /\ [][NextRewrite]_vars

WaveTokens == {"nan", "1", "3", "8388607"}

QuotedTokens == {"\"3"}

\* cells of up to MaxTokens tokens; a quoted token only after a separator
WaveCells ==
    {c \in SeqsUpTo(WaveTokens \cup QuotedTokens, MaxTokens) :
        Len(c) > 0 => c[1] \in WaveTokens}

WaveRows ==
    {RawRow(ts, Num(7), "A", Num(1), w) :
        ts \in {"2019-01-01 10:00:00", "Invalid Date"}, w \in WaveCells}

WaveFeatureLists ==
    {<<>>, <<"mean">>, <<"min", "max">>, <<"max", "max">>, <<"avg">>, <<"std">>,
     <<"median", "sum">>}

\* the squared deviations of a cell that holds 8388607 are beyond the
\* integers of the model: np.std is taken of the cells of small readings
SmallReadings(f, features) ==
    (\E k \in 1..Len(features) : features[k] \in {"std", "var"}) =>
        \A i \in 1..Len(f) : \A col \in WaveCols : \A t \in 1..Len(f[i].waves[col]) :
            f[i].waves[col][t] # "8388607"

InitWave ==
    /\ pandas \in PandasApis
    /\ file_format = "ok"
    /\ summary_module = "io"
    /\ file \in SeqsUpTo(WaveRows, MaxWaveRows)
    /\ wave_features \in WaveFeatureLists
    /\ SmallReadings(file, wave_features)
    /\ InitObjects

NextWave == FormatWaveFormData \/ Clean

SpecWave == InitWave /\ [][NextWave]_vars

----------------------------------------------------------------------------
RawTimestamps(f) == {to_datetime(ValidRows(f)[i].timestamp) : i \in 1..Len(ValidRows(f))}

\* C1: after clean() the cleaned series has exactly one row per distinct
\* valid timestamp of the raw table: no timestamp twice, none left out.
C1_OneRowPerTimestamp ==
    _data.kind = "DataFrame" =>
        /\ \A i, j \in 1..Len(_data.rows) :
              i # j => _data.rows[i].timestamp # _data.rows[j].timestamp
        /\ {_data.rows[i].timestamp : i \in 1..Len(_data.rows)} = RawTimestamps(file)

C1_Witness ==
    /\ _data.kind = "DataFrame"
    /\ Len(ValidRows(file)) > Cardinality(RawTimestamps(file))
    /\ Len(_data.rows) = 1
    /\ \E i, j \in 1..Len(file) : file[i].timestamp # file[j].timestamp
                                  /\ ~ContainsInvalidDate(file[i].timestamp)
                                  /\ ~ContainsInvalidDate(file[j].timestamp)

\* the rows of the raw table that are not flagged "Invalid Date", with
\* their waveform statistics
ValidFormatted(f, features) == _format_wave_form_data(ValidRows(f), features)

\* C2: a raw row whose timestamp contains "Invalid Date" contributes nothing
\* to the cleaned series: no row of its own, no count in merged_n, no value
\* chosen from it; the series is the one cleaned from the valid rows alone.
C2_InvalidDateContributesNothing ==
    _data.kind = "DataFrame" =>
        LET valid == ValidFormatted(file, wave_features)
        IN  /\ Len(_data.rows) <= Len(valid)
            /\ \A i \in 1..Len(_data.rows) :
                  LET row == _data.rows[i]
                      grp == {j \in 1..Len(valid) : to_datetime(valid[j].timestamp) = row.timestamp}
                  IN  /\ grp # {}
                      /\ row.merged_n <= Cardinality(grp)
                      /\ \A c \in DOMAIN row.vals :
                            \/ isnan(row.vals[c])
                            \/ \E j \in 1..Len(valid) : valid[j].vals[c] = row.vals[c]
            /\ _data.rows = clean(pandas, ValidRows(file), wave_features)

C2_Witness ==
    /\ _data.kind = "DataFrame"
    /\ Len(_data.rows) = 1
    /\ Len(file) = 2
    /\ ContainsInvalidDate(file[1].timestamp)
    /\ file[1].scalars["x"] = Num(1)
    /\ ~isnan(file[1].catsid)
    /\ file[2].scalars["x"] = Sentinel
    /\ _data.rows[1].merged_n = 1

\* C3: after clean() no cell of the cleaned series holds the sentinel 8388607.0.
C3_NoSentinel ==
    _data.kind = "DataFrame" =>
        \A i \in 1..Len(_data.rows) : \A c \in DOMAIN _data.rows[i].vals :
            _data.rows[i].vals[c] # Sentinel

RawMissing(v) == isnan(v) \/ v = Sentinel

\* C4: for every timestamp group and every field other than timestamp,
\* catsid and type, the cleaned value is missing iff every raw row of the
\* group is missing for the field, and otherwise is one of the non-missing
\* values the raw rows of that group hold.
C4_RepresentativeFromGroup ==
    _data.kind = "DataFrame" =>
        LET valid == ValidFormatted(file, wave_features)
        IN  \A i \in 1..Len(_data.rows) :
                LET row == _data.rows[i]
                    grp == {j \in 1..Len(valid) : to_datetime(valid[j].timestamp) = row.timestamp}
                IN  \A c \in DOMAIN row.vals :
                        /\ isnan(row.vals[c]) <=> \A j \in grp : RawMissing(valid[j].vals[c])
                        /\ ~isnan(row.vals[c]) =>
                              \E j \in grp : /\ ~RawMissing(valid[j].vals[c])
                                             /\ valid[j].vals[c] = row.vals[c]

\* C5: merged_n of every cleaned row is the number of valid raw rows that
\* share its timestamp, whatever their catsid, and the merged_n sum to the
\* number of valid raw rows.
RECURSIVE SumMergedN(_, _)
SumMergedN(rows, k) == IF k = 0 THEN 0 ELSE SumMergedN(rows, k - 1) + rows[k].merged_n

C5_MergedNCountsRows ==
    _data.kind = "DataFrame" =>
        LET valid == ValidRows(file)
        IN  /\ \A i \in 1..Len(_data.rows) :
                  _data.rows[i].merged_n =
                      Cardinality({j \in 1..Len(valid) :
                                      to_datetime(valid[j].timestamp) = _data.rows[i].timestamp})
            /\ SumMergedN(_data.rows, Len(_data.rows)) = Len(valid)

\* C6: a waveform cell that decodes to an empty sequence (empty, or only
\* "nan" tokens) gives the missing marker in every derived column of its
\* row, never zero; a cell that decodes to numbers gives the named
\* statistic of exactly those numbers.
IsStatistic(func, v, a) ==
    CASE func = "max" -> (\E k \in 1..Len(a) : a[k] = v) /\ \A k \in 1..Len(a) : RatLE(a[k], v)
      [] func = "min" -> (\E k \in 1..Len(a) : a[k] = v) /\ \A k \in 1..Len(a) : RatLE(v, a[k])
      [] func = "mean" -> RatMulInt(v, Len(a)) = SeqSum(a, Len(a))
      [] func = "sum" -> v = SeqSum(a, Len(a))
      [] func = "median" ->
            /\ 2 * Cardinality({k \in 1..Len(a) : RatLE(a[k], v)}) >= Len(a)
            /\ 2 * Cardinality({k \in 1..Len(a) : RatLE(v, a[k])}) >= Len(a)
            /\ \E i, j \in 1..Len(a) : RatMulInt(v, 2) = RatAdd(a[i], a[j])
      [] func = "std" ->
            LET m == RatDivInt(SeqSum(a, Len(a)), Len(a))
            IN  /\ v.n >= 0
                /\ RatMulInt(Sq(v), Len(a)) =
                      SeqSum([k \in 1..Len(a) |-> Sq(RatSub(a[k], m))], Len(a))

C6_EmptyWaveformIsMissing ==
    df_wave.kind = "DataFrame" =>
        LET raw == ValidRows(file)
        IN  /\ Len(df_wave.rows) = Len(raw)
            /\ \A i \in 1..Len(raw), col \in WaveCols, k \in 1..Len(wave_features) :
                  LET cell == raw[i].waves[col]
                      v == df_wave.rows[i].vals[feature_name(col, wave_features[k])]
                  IN  IF \A t \in 1..Len(cell) : cell[t] = "nan"
                      THEN isnan(v)
                      ELSE ~isnan(v) /\ IsStatistic(wave_features[k], v, fromstring(cell))

C6_Witness ==
    /\ df_wave.kind = "DataFrame"
    /\ Len(df_wave.rows) = 1
    /\ wave_features = <<"mean">>
    /\ ValidRows(file)[1].waves["w"] = <<"nan", "nan">>
    /\ isnan(df_wave.rows[1].vals["w_mean"])

\* C10: resample(interval, interpolate=True) gives a value to a bucket with
\* no observations only when the column has observed buckets both before
\* and after it, and that value lies between the two nearest observed
\* buckets; buckets before the first or after the last observed bucket stay
\* missing, and observed buckets keep their mean.
Between(v, a, b) == (RatLE(a, v) /\ RatLE(v, b)) \/ (RatLE(b, v) /\ RatLE(v, a))

C10_InterpolationStaysInside ==
    (resampled.kind = "DataFrame" /\ resampled.interp_missing /\ _data.kind = "DataFrame") =>
        LET obs == resample_mean(_data.rows, rule_seconds(resampled.rule))
            out == resampled.rows
        IN  /\ Len(out) = Len(obs)
            /\ \A k \in 1..Len(obs) : \A c \in DOMAIN obs[k].vals :
                  LET before == {j \in 1..(k - 1) : ~isnan(obs[j].vals[c])}
                      after == {j \in (k + 1)..Len(obs) : ~isnan(obs[j].vals[c])}
                  IN  IF ~isnan(obs[k].vals[c]) THEN out[k].vals[c] = obs[k].vals[c]
                      ELSE IF before = {} \/ after = {} THEN isnan(out[k].vals[c])
                      ELSE /\ ~isnan(out[k].vals[c])
                           /\ Between(out[k].vals[c], obs[SetMax(before)].vals[c],
                                      obs[SetMin(after)].vals[c])

\* C7: reading summary_table before any calculate() has completed, or
\* time_series before any clean() has completed, is surfaced as an explicit
\* uninitialized-state error, never as a silent empty or undefined result.
C7_UninitializedReadIsError ==
    [][((ReadSummaryTable /\ _summary.kind = "None") \/ (ReadTimeSeries /\ _data.kind = "None"))
          => ret'.kind = "UninitializedStateError"]_vars

\* C8: after calculate() has completed, reading trip_duration returns the
\* duration (last minus first timestamp of the resampled index) of the
\* most recent calculate call, not the placeholder and not a callable.
C8_TripDurationIsComputedValue ==
    [][(ReadTripDuration /\ _summary.kind = "DataFrame")
          => (ret'.kind = "Timedelta" /\ ret'.value = duration.value)]_vars

\* C9: for every list of N >= 0 summary tables featurize_trips returns a
\* matrix of exactly N rows with index 0..N-1 whose row i is the flattening
\* of the i-th table; the empty list gives an empty matrix, not a failure.
C9_FeaturizeTripsStacksInOrder ==
    [][(FeaturizeTrips /\ \A k \in 1..Len(summary_frames) : summary_frames[k].kind = "DataFrame")
          => /\ df_trips'.kind = "DataFrame"
             /\ Len(df_trips'.rows) = Len(summary_frames)
             /\ df_trips'.index = [i \in 1..Len(summary_frames) |-> i - 1]
             /\ \A i \in 1..Len(summary_frames) :
                   LET row == featurize_trip(summary_frames[i].rows)
                   IN  \A c \in DOMAIN row : df_trips'.rows[i][c] = row[c]]_vars

\* C11: a clean() call that fails at any pipeline stage leaves the stored
\* cleaned series exactly as it was (the series of the last successful
\* clean(), or None); the stored series changes only as the final step of a
\* successful clean().
C11_FailedCleanKeepsSeries ==
    [][/\ (Clean /\ clean_exc' # "ok") => _data' = _data
       /\ _data' # _data => (Clean /\ clean_exc' = "ok")]_vars

C11_Witness ==
    /\ _data.kind = "DataFrame"
    /\ Len(_data.rows) = 1
    /\ clean_exc = "KeyError"
    /\ file_format = "no_catsid"

====
